---- MODULE Spec2Model ----
(***************************************************************************)
(* Deployment planner of the blueforge GCP agent (DeploymentSteps.js) and  *)
(* the workflow functions that drive it.                                   *)
(*                                                                         *)
(* Identifiers are JavaScript strings; they are modelled as sequences of   *)
(* one-character strings so that lastIndexOf('/') and slice() are computed *)
(* and not looked up.  A JavaScript object is a function from its keys;    *)
(* Object.keys / for...in enumerate the keys in the order keyOrder.        *)
(***************************************************************************)
EXTENDS Integers, Sequences, FiniteSets, TLC

VARIABLES
    state,      \* the current architecture (getStateArchitecture)
    target,     \* the plan's architecture (getPlanArchitecture)
    keyOrder,   \* the order in which Object.keys enumerates keys
    ran,        \* whether getSteps has run on (state, target)
    diffs,      \* the differences the last run computed (getDiffs)
    out,        \* what the last run returned or threw
    records,    \* Firestore: apps/{app}/{type}/{id}, the entity records
    plans,      \* Firestore: apps/{app}/plans/{planId}
    apps,       \* Firestore: apps/{app}
    clock,      \* what Date.now() returns
    call,       \* the workflow function called last, with its payload
    executions, \* the workflow executions calling createResourceShortId
    metrics     \* Firestore: apps/{app}/resources/{id}/metrics/{metricName}

plannerVars == <<state, target, keyOrder, ran, diffs, out>>
storeVars == <<records, plans, apps, clock, call>>
jobVars == <<executions, metrics>>
vars ==
    <<state, target, keyOrder, ran, diffs, out, records, plans, apps, clock, call,
      executions, metrics>>

----------------------------------------------------------------------------
(* Bounds of the model *)

\* dependency entries of the target plus those of the state definitions that
\* differ from the target's definition of the same id
MaxEdges == 2

\* entries of state.ids, state.accounts, services and layers (both sides)
MaxExtra == 2

----------------------------------------------------------------------------
(* Universe of identifiers and definitions *)

idA == <<"a">>
idMB == <<"m", "/", "b">>
idM == <<"m", "/">>
idRoot == <<"/">>
svc1 == <<"s", "v", "c", "1">>
svc2 == <<"s", "v", "c", "2">>
lay1 == <<"l", "a", "y", "1">>

RIds == {idA, idMB, idM}
RIdSeq == <<idA, idMB, idM>>
AllIds == {idRoot, idM, idA, idMB}
SvcIds == {svc1, svc2}
LayerIds == {lay1}
DepNames == {"d1", "d2"}
DepNameOrder == <<"d1", "d2">>
BaseOrder == <<idRoot, idM, idA, idMB, svc1, svc2, lay1>>

Null == "null"
EmptyObj == <<>>

Range(s) == {s[i] : i \in DOMAIN s}
includes(s, x) == \E i \in DOMAIN s : s[i] = x
Reverse(s) == [i \in 1..Len(s) |-> s[Len(s) + 1 - i]]

RECURSIVE Flat(_)
Flat(ss) == IF ss = <<>> THEN <<>> ELSE Head(ss) \o Flat(Tail(ss))

\* Object.keys(obj) / for (k in obj)
ObjectKeys(obj) == SelectSeq(keyOrder, LAMBDA k : k \in DOMAIN obj)
DepKeys(deps) == SelectSeq(DepNameOrder, LAMBDA k : k \in DOMAIN deps)

ActionTypes ==
    [IDS |-> "ids", ACCOUNTS |-> "accounts", SERVICES |-> "services",
     LAYERS |-> "layers", RESOURCES |-> "resources"]

Actions == [CREATE |-> "create", UPDATE |-> "update", DELETE |-> "delete"]

\* fast-deep-equal on JSON values: structural equality, key order ignored
deepEqual(a, b) == a = b

----------------------------------------------------------------------------
(* Diff engine *)

\* mutant: the common keys are compared by reference (prev[k] !== next[k]),
\* which differs for any two objects
getDiffObjByReference(prev, next) ==
    LET kprev == ObjectKeys(prev)
        knext == ObjectKeys(next)
        addedFields == SelectSeq(knext, LAMBDA k : ~includes(kprev, k))
        removedFields == SelectSeq(kprev, LAMBDA k : ~includes(knext, k))
        commonFields == SelectSeq(knext, LAMBDA k : includes(kprev, k))
    IN  [added |-> addedFields, removed |-> removedFields, updated |-> commonFields]

getDiffObj(prev, next) ==
    LET kprev == ObjectKeys(prev)
        knext == ObjectKeys(next)
        addedFields == SelectSeq(knext, LAMBDA k : ~includes(kprev, k))
        removedFields == SelectSeq(kprev, LAMBDA k : ~includes(knext, k))
        commonFields == SelectSeq(knext, LAMBDA k : includes(kprev, k))
        updatedFields == SelectSeq(commonFields, LAMBDA k : ~deepEqual(prev[k], next[k]))
    IN  [added |-> addedFields, removed |-> removedFields, updated |-> updatedFields]

getDiffArr(prev, next) ==
    LET addedFields == SelectSeq(next, LAMBDA k : ~includes(prev, k))
        removedFields == SelectSeq(prev, LAMBDA k : ~includes(next, k))
    IN  [added |-> addedFields, removed |-> removedFields]

\* resourceId.lastIndexOf('/'), 0-based, -1 when absent
lastIndexOf(s, c) ==
    IF \E i \in DOMAIN s : s[i] = c
    THEN (CHOOSE i \in DOMAIN s : s[i] = c /\ \A j \in DOMAIN s : s[j] = c => j <= i) - 1
    ELSE -1

\* index === -1 ? '/' : resourceId.slice(0, index + 1)
moduleIdOf(resourceId) ==
    LET index == lastIndexOf(resourceId, "/")
    IN  IF index = -1 THEN <<"/">> ELSE SubSeq(resourceId, 1, index + 1)

\* [...new Set(xs)]: first occurrences, in order
RECURSIVE uniq(_)
uniq(xs) ==
    IF xs = <<>> THEN <<>>
    ELSE LET r == uniq(SubSeq(xs, 1, Len(xs) - 1))
             x == xs[Len(xs)]
         IN  IF includes(r, x) THEN r ELSE Append(r, x)

\* mutant: the ids and accounts are compared with the resource ids alone
getDiffsResourceIdsOnly(st, tg) ==
    LET targetResourceIds == ObjectKeys(tg.resources)
    IN  [diffIds |-> getDiffArr(ObjectKeys(st.ids), targetResourceIds),
         diffAccounts |-> getDiffArr(ObjectKeys(st.accounts), targetResourceIds),
         diffServices |-> getDiffObj(st.services, tg.services),
         diffLayers |-> getDiffObj(st.layers, tg.layers),
         diffResources |-> getDiffObj(st.resources, tg.resources)]

getDiffs(st, tg) ==
    LET targetResourceIds == ObjectKeys(tg.resources)
        targetModuleIds ==
            uniq([i \in 1..Len(targetResourceIds) |-> moduleIdOf(targetResourceIds[i])])
        targetResourceAndModuleIds == targetModuleIds \o targetResourceIds
    IN  [diffIds |-> getDiffArr(ObjectKeys(st.ids), targetResourceAndModuleIds),
         diffAccounts |-> getDiffArr(ObjectKeys(st.accounts), targetResourceAndModuleIds),
         diffServices |-> getDiffObj(st.services, tg.services),
         diffLayers |-> getDiffObj(st.layers, tg.layers),
         diffResources |-> getDiffObj(st.resources, tg.resources)]

----------------------------------------------------------------------------
(* Dependency indexes *)

\* the [depId, resourceId] pairs pushed by the two nested for...in loops of
\* expandResourceUpdates, in push order; dependents.get(x) is DependentsOf(_, x)
RECURSIVE dependentPairs(_, _)
dependentPairs(resources, ks) ==
    IF ks = <<>> THEN <<>>
    ELSE LET resourceId == Head(ks)
             deps == resources[resourceId].dependencies
             dk == SelectSeq(DepKeys(deps), LAMBDA key : deps[key].output)
         IN  [i \in 1..Len(dk) |-> <<deps[dk[i]].resourceId, resourceId>>]
                 \o dependentPairs(resources, Tail(ks))

DependentsOf(pairs, depId) ==
    LET sel == SelectSeq(pairs, LAMBDA p : p[1] = depId)
    IN  [i \in 1..Len(sel) |-> sel[i][2]]

\* for (const child of children) if (!toHandle.has(child)) { add; push }
RECURSIVE visitChildren(_, _, _)
visitChildren(children, stack, toHandle) ==
    IF children = <<>> THEN [stack |-> stack, toHandle |-> toHandle]
    ELSE LET child == Head(children)
         IN  IF ~includes(toHandle, child)
             THEN visitChildren(Tail(children), Append(stack, child), Append(toHandle, child))
             ELSE visitChildren(Tail(children), stack, toHandle)

\* while (stack.length) { current = stack.pop(); ... }
RECURSIVE traverseDependents(_, _, _)
traverseDependents(stack, toHandle, pairs) ==
    IF stack = <<>> THEN toHandle
    ELSE LET current == stack[Len(stack)]
             rest == SubSeq(stack, 1, Len(stack) - 1)
             v == visitChildren(DependentsOf(pairs, current), rest, toHandle)
         IN  traverseDependents(v.stack, v.toHandle, pairs)

\* mutant: the transitive dependents are not traversed
expandResourceUpdatesSeedsOnly(tg, diffResources) ==
    uniq(diffResources.added \o diffResources.updated)

expandResourceUpdates(tg, diffResources) ==
    LET toHandle == uniq(diffResources.added \o diffResources.updated)
        dependents == dependentPairs(tg.resources, ObjectKeys(tg.resources))
    IN  traverseDependents(toHandle, toHandle, dependents)

\* mutant: only the entries whose output flag is set enter the index
buildDependenciesIndexOutputOnly(tg) ==
    [resourceId \in DOMAIN tg.resources |->
        LET deps == tg.resources[resourceId].dependencies
            dk == SelectSeq(DepKeys(deps), LAMBDA k : deps[k].output)
        IN  uniq([i \in 1..Len(dk) |-> deps[dk[i]].resourceId])]

\* resourceId -> unique list of the resourceIds of its dependency entries
buildDependenciesIndex(tg) ==
    [resourceId \in DOMAIN tg.resources |->
        LET deps == tg.resources[resourceId].dependencies
            dk == DepKeys(deps)
        IN  uniq([i \in 1..Len(dk) |-> deps[dk[i]].resourceId])]

\* mutant: the delete direction reads the forward index of the state
buildDependentsIndexForward(st) == buildDependenciesIndex(st)

\* depId -> unique list of the resources that have a dependency entry on it
buildDependentsIndex(st) ==
    LET resources == st.resources
        ks == ObjectKeys(resources)
        slots == {p \in (DOMAIN resources) \X DepNames :
                     p[2] \in DOMAIN resources[p[1]].dependencies}
        depIds == {resources[p[1]].dependencies[p[2]].resourceId : p \in slots}
    IN  [depId \in depIds |->
            SelectSeq(ks, LAMBDA r :
                \E k \in DOMAIN resources[r].dependencies :
                    resources[r].dependencies[k].resourceId = depId)]

\* mutant: deps.every instead of deps.some
isReadyEvery(resourceId, index, resourceUpdates) ==
    IF resourceId \notin DOMAIN index THEN TRUE
    ELSE LET deps == index[resourceId]
             hasPendingDep == \A i \in DOMAIN deps : includes(resourceUpdates, deps[i])
         IN  ~hasPendingDep

isReady(resourceId, index, resourceUpdates) ==
    IF resourceId \notin DOMAIN index THEN TRUE
    ELSE LET deps == index[resourceId]
             hasPendingDep == \E i \in DOMAIN deps : includes(resourceUpdates, deps[i])
         IN  ~hasPendingDep

----------------------------------------------------------------------------
(* Wave scheduler *)

NoError == "none"

\* mutant: a pass takes the first ready resource only
RECURSIVE wavePassesOneAtATime(_, _, _, _, _)
wavePassesOneAtATime(pass, initialCount, pending, waves, index) ==
    IF ~(pass < initialCount /\ Len(pending) > 0)
    THEN [pending |-> pending, waves |-> waves]
    ELSE LET ready == SelectSeq(pending, LAMBDA id : isReady(id, index, pending))
             readyNow == IF ready = <<>> THEN <<>> ELSE <<Head(ready)>>
         IN  IF Len(readyNow) > 0
             THEN wavePassesOneAtATime(pass + 1, initialCount,
                             SelectSeq(pending, LAMBDA id : ~includes(readyNow, id)),
                             Append(waves, readyNow), index)
             ELSE wavePassesOneAtATime(pass + 1, initialCount, pending, waves, index)

\* for (let pass = 0; pass < initialCount && pending.length; pass++) { ... }
RECURSIVE wavePasses(_, _, _, _, _)
wavePasses(pass, initialCount, pending, waves, index) ==
    IF ~(pass < initialCount /\ Len(pending) > 0)
    THEN [pending |-> pending, waves |-> waves]
    ELSE LET readyNow == SelectSeq(pending, LAMBDA id : isReady(id, index, pending))
         IN  IF Len(readyNow) > 0
             THEN wavePasses(pass + 1, initialCount,
                             SelectSeq(pending, LAMBDA id : ~includes(readyNow, id)),
                             Append(waves, readyNow), index)
             ELSE wavePasses(pass + 1, initialCount, pending, waves, index)

\* The throw statement of buildResourceDeployWaves builds its message from
\* `resourceDeletes`, which is not in scope there: evaluating the template
\* raises a ReferenceError before the Error is constructed.
deployWavesThrow(initialCount, pending) ==
    [err |-> "ReferenceError", message |-> <<"resourceDeletes is not defined">>,
     waves |-> <<>>]

\* mutant: the waves found are returned although resources are still pending
buildResourceDeployWavesNoThrow(tg, diffResources) ==
    LET index == buildDependenciesIndex(tg)
        resourceUpdates == expandResourceUpdates(tg, diffResources)
        r == wavePasses(0, Len(resourceUpdates), resourceUpdates, <<>>, index)
    IN  [err |-> NoError, message |-> <<>>, waves |-> r.waves]

buildResourceDeployWaves(tg, diffResources) ==
    LET index == buildDependenciesIndex(tg)
        resourceUpdates == expandResourceUpdates(tg, diffResources)
        initialCount == Len(resourceUpdates)
        r == wavePasses(0, initialCount, resourceUpdates, <<>>, index)
    IN  IF Len(r.pending) > 0
        THEN deployWavesThrow(initialCount, r.pending)
        ELSE [err |-> NoError, message |-> <<>>, waves |-> r.waves]

\* mutant: the changed resources are deleted as well
buildResourceDestroyWavesWithUpdated(st, diffResources) ==
    LET index == buildDependentsIndex(st)
        resourceDeletes == diffResources.removed \o diffResources.updated
        r == wavePasses(0, Len(resourceDeletes), resourceDeletes, <<>>, index)
    IN  [err |-> NoError, message |-> <<>>, waves |-> r.waves]

buildResourceDestroyWaves(st, diffResources) ==
    LET index == buildDependentsIndex(st)
        resourceDeletes == diffResources.removed
        initialCount == Len(resourceDeletes)
        r == wavePasses(0, initialCount, resourceDeletes, <<>>, index)
    IN  IF Len(r.pending) > 0
        THEN [err |-> "Error",
              message |-> <<"Max passes reached (", ToString(initialCount), ") with ",
                            ToString(Len(r.pending)),
                            " resources still pending deletion. Possible dependency cycle.">>,
              waves |-> <<>>]
        ELSE [err |-> NoError, message |-> <<>>, waves |-> r.waves]

----------------------------------------------------------------------------
(* Plan assembler *)

\* mutant: the counter is read and not incremented
nextStepIdNoIncrement(i) == [stepId |-> <<"step_", i>>, i |-> i]

\* one call of the generator `() => `step_${i++}``, the counter being i
nextStepId(i) == [stepId |-> <<"step_", i>>, i |-> i + 1]

\* n successive calls of nextStepId
RECURSIVE stepIds(_, _)
stepIds(i, n) ==
    IF n = 0 THEN [ids |-> <<>>, i |-> i]
    ELSE LET c == nextStepId(i)
             r == stepIds(c.i, n - 1)
         IN  [ids |-> <<c.stepId>> \o r.ids, i |-> r.i]

\* mapToStep is a function from an id to the fields of its step other than
\* stepId; Step adds the stepId the generator returns for it
Step(stepId, fields) ==
    [stepId |-> stepId, type |-> fields.type, action |-> fields.action,
     id |-> fields.id, data |-> fields.data]

Fields(type, action, id, data) ==
    [type |-> type, action |-> action, id |-> id, data |-> data]

\* ids.map(mapToStep), the generator being called once per element, in order
mapSteps(ids, sids, offset, mapToStep) ==
    [j \in 1..Len(ids) |-> Step(sids[offset + j], mapToStep[ids[j]])]

\* mutant: steps.unshift instead of steps.push
pushParallelUnshift(acc, ids, mapToStep) ==
    IF Len(ids) = 0 THEN acc
    ELSE LET g == stepIds(acc.i, Len(ids))
         IN  [steps |-> <<mapSteps(ids, g.ids, 0, mapToStep)>> \o acc.steps, i |-> g.i]

\* mutant: no early return on an empty list
pushParallelNoGuard(acc, ids, mapToStep) ==
    LET g == stepIds(acc.i, Len(ids))
    IN  [steps |-> Append(acc.steps, mapSteps(ids, g.ids, 0, mapToStep)), i |-> g.i]

pushParallel(acc, ids, mapToStep) ==
    IF Len(ids) = 0 THEN acc
    ELSE LET g == stepIds(acc.i, Len(ids))
         IN  [steps |-> Append(acc.steps, mapSteps(ids, g.ids, 0, mapToStep)), i |-> g.i]

\* mutant: the ids are pushed as one wave
pushSequentialOneWave(acc, ids, mapToStep) ==
    LET g == stepIds(acc.i, Len(ids))
    IN  IF Len(ids) = 0 THEN acc
        ELSE [steps |-> Append(acc.steps, mapSteps(ids, g.ids, 0, mapToStep)), i |-> g.i]

pushSequential(acc, ids, mapToStep) ==
    LET g == stepIds(acc.i, Len(ids))
    IN  [steps |-> acc.steps \o
            [j \in 1..Len(ids) |-> <<Step(g.ids[j], mapToStep[ids[j]])>>],
         i |-> g.i]

\* waves.forEach(resourceIds => steps.push(resourceIds.map(...)))
pushWaves(acc, waves, mapToStep) ==
    LET g == stepIds(acc.i, Len(Flat(waves)))
    IN  [steps |-> acc.steps \o
            [w \in 1..Len(waves) |->
                mapSteps(waves[w], g.ids, Len(Flat(SubSeq(waves, 1, w - 1))), mapToStep)],
         i |-> g.i]

\* target.resources[id]?.service || null
serviceOrNull(resources, id) ==
    IF id \in DOMAIN resources THEN resources[id].service ELSE Null

\* mutant: every scheduled id is created
createOrUpdateAlwaysCreate(diff, id) == Actions.CREATE

createOrUpdate(diff, id) ==
    IF includes(diff.added, id) THEN Actions.CREATE ELSE Actions.UPDATE

\* mutant: a resource that exists is updated with the definition it has
getStepsStaleData(st, tg) ==
    LET d == getDiffs(st, tg)
        a0 == [steps |-> <<>>, i |-> 0]
        svcUp == d.diffServices.added \o d.diffServices.updated
        a1 == pushParallel(a0, svcUp,
                [id \in Range(svcUp) |->
                    Fields(ActionTypes.SERVICES, createOrUpdate(d.diffServices, id),
                           id, tg.services[id])])
        layUp == d.diffLayers.added \o d.diffLayers.updated
        a2 == pushParallel(a1, layUp,
                [id \in Range(layUp) |->
                    Fields(ActionTypes.LAYERS, createOrUpdate(d.diffLayers, id),
                           id, tg.layers[id])])
        a3 == pushSequential(a2, d.diffIds.added,
                [id \in Range(d.diffIds.added) |->
                    Fields(ActionTypes.IDS, Actions.CREATE, id, EmptyObj)])
        a4 == pushSequential(a3, d.diffAccounts.added,
                [id \in Range(d.diffAccounts.added) |->
                    Fields(ActionTypes.ACCOUNTS, Actions.CREATE, id,
                           [service |-> serviceOrNull(tg.resources, id)])])
        deploy == buildResourceDeployWaves(tg, d.diffResources)
        a5 == pushWaves(a4, deploy.waves,
                [id \in Range(Flat(deploy.waves)) |->
                    Fields(ActionTypes.RESOURCES, createOrUpdate(d.diffResources, id),
                           id, IF id \in DOMAIN st.resources THEN st.resources[id]
                               ELSE tg.resources[id])])
        destroy == buildResourceDestroyWaves(st, d.diffResources)
        a6 == pushWaves(a5, destroy.waves,
                [id \in Range(Flat(destroy.waves)) |->
                    Fields(ActionTypes.RESOURCES, Actions.DELETE, id, st.resources[id])])
        a7 == pushParallel(a6, d.diffAccounts.removed,
                [id \in Range(d.diffAccounts.removed) |->
                    Fields(ActionTypes.ACCOUNTS, Actions.DELETE, id,
                           [service |-> serviceOrNull(st.resources, id)])])
        a8 == pushParallel(a7, d.diffIds.removed,
                [id \in Range(d.diffIds.removed) |->
                    Fields(ActionTypes.IDS, Actions.DELETE, id, EmptyObj)])
        a9 == pushParallel(a8, d.diffLayers.removed,
                [id \in Range(d.diffLayers.removed) |->
                    Fields(ActionTypes.LAYERS, Actions.DELETE, id, st.layers[id])])
        a10 == pushParallel(a9, d.diffServices.removed,
                [id \in Range(d.diffServices.removed) |->
                    Fields(ActionTypes.SERVICES, Actions.DELETE, id, st.services[id])])
    IN  IF deploy.err # NoError
        THEN [err |-> deploy.err, message |-> deploy.message, steps |-> <<>>]
        ELSE IF destroy.err # NoError
        THEN [err |-> destroy.err, message |-> destroy.message, steps |-> <<>>]
        ELSE [err |-> NoError, message |-> <<>>, steps |-> a10.steps]

getSteps(st, tg) ==
    LET d == getDiffs(st, tg)
        a0 == [steps |-> <<>>, i |-> 0]
        svcUp == d.diffServices.added \o d.diffServices.updated
        a1 == pushParallel(a0, svcUp,
                [id \in Range(svcUp) |->
                    Fields(ActionTypes.SERVICES, createOrUpdate(d.diffServices, id),
                           id, tg.services[id])])
        layUp == d.diffLayers.added \o d.diffLayers.updated
        a2 == pushParallel(a1, layUp,
                [id \in Range(layUp) |->
                    Fields(ActionTypes.LAYERS, createOrUpdate(d.diffLayers, id),
                           id, tg.layers[id])])
        a3 == pushSequential(a2, d.diffIds.added,
                [id \in Range(d.diffIds.added) |->
                    Fields(ActionTypes.IDS, Actions.CREATE, id, EmptyObj)])
        a4 == pushSequential(a3, d.diffAccounts.added,
                [id \in Range(d.diffAccounts.added) |->
                    Fields(ActionTypes.ACCOUNTS, Actions.CREATE, id,
                           [service |-> serviceOrNull(tg.resources, id)])])
        deploy == buildResourceDeployWaves(tg, d.diffResources)
        a5 == pushWaves(a4, deploy.waves,
                [id \in Range(Flat(deploy.waves)) |->
                    Fields(ActionTypes.RESOURCES, createOrUpdate(d.diffResources, id),
                           id, tg.resources[id])])
        destroy == buildResourceDestroyWaves(st, d.diffResources)
        a6 == pushWaves(a5, destroy.waves,
                [id \in Range(Flat(destroy.waves)) |->
                    Fields(ActionTypes.RESOURCES, Actions.DELETE, id, st.resources[id])])
        a7 == pushParallel(a6, d.diffAccounts.removed,
                [id \in Range(d.diffAccounts.removed) |->
                    Fields(ActionTypes.ACCOUNTS, Actions.DELETE, id,
                           [service |-> serviceOrNull(st.resources, id)])])
        a8 == pushParallel(a7, d.diffIds.removed,
                [id \in Range(d.diffIds.removed) |->
                    Fields(ActionTypes.IDS, Actions.DELETE, id, EmptyObj)])
        a9 == pushParallel(a8, d.diffLayers.removed,
                [id \in Range(d.diffLayers.removed) |->
                    Fields(ActionTypes.LAYERS, Actions.DELETE, id, st.layers[id])])
        a10 == pushParallel(a9, d.diffServices.removed,
                [id \in Range(d.diffServices.removed) |->
                    Fields(ActionTypes.SERVICES, Actions.DELETE, id, st.services[id])])
    IN  IF deploy.err # NoError
        THEN [err |-> deploy.err, message |-> deploy.message, steps |-> <<>>]
        ELSE IF destroy.err # NoError
        THEN [err |-> destroy.err, message |-> destroy.message, steps |-> <<>>]
        ELSE [err |-> NoError, message |-> <<>>, steps |-> a10.steps]

----------------------------------------------------------------------------
(* The Firestore documents the workflow functions read and write.  A         *)
(* collection is a function from the keys of its documents to the documents, *)
(* a document a function from the names of its fields to their values.      *)

\* a parameter the payload of a call leaves out
Undefined == "undefined"

\* if (v): the payload values are strings; "" stands for the falsy ones
truthy(v) == v \notin {Undefined, Null, ""}

\* the key of the document of an id: '/' is escaped
encodeURIComponent(id) ==
    Flat([i \in DOMAIN id |-> IF id[i] = "/" THEN <<"%", "2", "F">> ELSE <<id[i]>>])

CollectionTypes ==
    {ActionTypes.IDS, ActionTypes.ACCOUNTS, ActionTypes.SERVICES, ActionTypes.LAYERS,
     ActionTypes.RESOURCES}

NoRecords == [type \in CollectionTypes |-> EmptyObj]
NoCall == [op |-> "none"]
NoExecutions == <<>>
NoMetrics == <<>>

\* DocumentReference.delete()
docDelete(coll, key) == [k \in (DOMAIN coll) \ {key} |-> coll[k]]

\* the fields of json written over those of doc, the fields of deleted
\* (FieldValue.delete()) removed
mergeFields(doc, json, deleted) ==
    [f \in ((DOMAIN doc) \cup (DOMAIN json)) \ deleted |->
        IF f \in DOMAIN json THEN json[f] ELSE doc[f]]

\* DocumentReference.set(json, { merge: true }): creates the document if needed
docSetMerge(coll, key, json, deleted) ==
    LET old == IF key \in DOMAIN coll THEN coll[key] ELSE EmptyObj
    IN  [k \in (DOMAIN coll) \cup {key} |->
            IF k = key THEN mergeFields(old, json, deleted) ELSE coll[k]]

\* DocumentReference.update(json): fails, writing nothing, without a document
docUpdate(coll, key, json) ==
    IF key \in DOMAIN coll
    THEN [ok |-> TRUE, coll |-> [coll EXCEPT ![key] = mergeFields(@, json, {})]]
    ELSE [ok |-> FALSE, coll |-> coll]

\* the record of an entity, found by its id field
HasRecord(recs, type, id) == \E k \in DOMAIN recs[type] : recs[type][k]["id"] = id
RecordOf(recs, type, id) ==
    recs[type][CHOOSE k \in DOMAIN recs[type] : recs[type][k]["id"] = id]

----------------------------------------------------------------------------
(* Workflow functions *)

\* the json updateState builds from its payload r at time updatedAt
updateStateJson(r, updatedAt) ==
    LET fields ==
            {"id", "type", "updatedAt"}
            \cup (IF truthy(r.status) THEN {"status"} ELSE {})
            \cup (IF r.deployed # <<>> THEN {"deployed"} ELSE {})
            \cup (IF truthy(r.output) THEN {"output"} ELSE {})
            \cup (IF r.deploying # Null /\ truthy(r.deploying) THEN {"deploying"} ELSE {})
            \cup (IF r.error # Null /\ truthy(r.error) THEN {"error"} ELSE {})
    IN  [f \in fields |->
            CASE f = "id" -> r.id
              [] f = "type" -> r.type
              [] f = "updatedAt" -> updatedAt
              [] f = "status" -> r.status
              [] f = "deployed" -> r.deployed[1]
              [] f = "output" -> r.output
              [] f = "deploying" -> r.deploying
              [] f = "error" -> r.error]

\* the fields updateState sets to FieldValue.delete()
updateStateDeleted(r) ==
    (IF r.deploying = Null THEN {"deploying"} ELSE {})
    \cup (IF r.error = Null THEN {"error"} ELSE {})

\* mutant: a successful delete marks the record instead of removing it
updateStateMarkDeleted(recs, r, now) ==
    [recs EXCEPT ![r.type] =
        docSetMerge(@, encodeURIComponent(r.id), updateStateJson(r, now),
                    updateStateDeleted(r))]

updateState(recs, r, now) ==
    IF r.action = Actions.DELETE /\ r.status = "deployed"
    THEN [recs EXCEPT ![r.type] = docDelete(@, encodeURIComponent(r.id))]
    ELSE [recs EXCEPT ![r.type] =
            docSetMerge(@, encodeURIComponent(r.id), updateStateJson(r, now),
                        updateStateDeleted(r))]

\* the state architecture: per type, id -> the `deployed` field of the
\* records that have one
getStateArchitecture(recs) ==
    [type \in DOMAIN recs |->
        LET docs == {k \in DOMAIN recs[type] : "deployed" \in DOMAIN recs[type][k]}
        IN  [id \in {recs[type][k]["id"] : k \in docs} |->
                recs[type][CHOOSE k \in docs : recs[type][k]["id"] = id]["deployed"]]]

\* steps.flat().reduce((acc, step) => { acc[step.stepId] = step; ... }, {})
allSteps(steps) ==
    LET flat == Flat(steps)
    IN  [sid \in {flat[i].stepId : i \in DOMAIN flat} |->
            flat[CHOOSE i \in DOMAIN flat :
                    /\ flat[i].stepId = sid
                    /\ \A j \in DOMAIN flat : j > i => flat[j].stepId # sid]]

\* what reading plans/{planId}/architecture.json gives: the download fails,
\* the file holds null, or it holds an architecture
NoFile == [kind |-> "missing"]
NullFile == [kind |-> "null"]
JsonFile(archi) == [kind |-> "json", archi |-> archi]

\* mutant: the steps are written whether planning failed or not
storeStepsEager(pl, planId, r) ==
    LET w == docUpdate(pl, planId, [steps |-> allSteps(r.steps)])
    IN  [err |-> IF r.err # NoError THEN r.err ELSE IF w.ok THEN NoError ELSE "NOT_FOUND",
         message |-> r.message, steps |-> r.steps, plans |-> w.coll]

\* what follows getSteps in computeDeploymentSteps, r being what getSteps
\* returned or threw: the steps of all waves are written in one update of
\* the plan document
storeSteps(pl, planId, r) ==
    LET w == docUpdate(pl, planId, [steps |-> allSteps(r.steps)])
    IN  IF r.err # NoError
        THEN [err |-> r.err, message |-> r.message, steps |-> <<>>, plans |-> pl]
        ELSE IF ~w.ok
        THEN [err |-> "NOT_FOUND", message |-> <<"No document to update">>,
              steps |-> <<>>, plans |-> pl]
        ELSE [err |-> NoError, message |-> <<>>, steps |-> r.steps, plans |-> w.coll]

\* the planning call: returns the waves, or fails with err; plans is the
\* plans collection afterwards
computeDeploymentSteps(recs, pl, planId, file) ==
    IF file.kind = "missing"
    THEN [err |-> "ApiError", message |-> <<"No such object">>, steps |-> <<>>,
          plans |-> pl]
    ELSE IF file.kind = "null"
    THEN [err |-> "Error", message |-> <<"Both 'state' and 'target' must be provided.">>,
          steps |-> <<>>, plans |-> pl]
    ELSE storeSteps(pl, planId, getSteps(getStateArchitecture(recs), file.archi))

\* mutant: update({ [steps.<stepId>]: { [progress]: now, status } }), the
\* step being replaced by the two fields
stepFieldsUpdateReplace(doc, r, now) ==
    LET steps == IF "steps" \in DOMAIN doc THEN doc["steps"] ELSE EmptyObj
        new == (r.progress :> now) @@ ("status" :> r.status)
    IN  [steps |-> [sid \in (DOMAIN steps) \cup {r.stepId} |->
                        IF sid = r.stepId THEN new ELSE steps[sid]]]

\* update({ [steps.<stepId>.<progress>]: now, [steps.<stepId>.status]: status }):
\* the two fields of the step are set, its other fields and the other steps
\* are kept; nothing is written when the plan has no document
stepFieldsUpdate(doc, r, now) ==
    LET steps == IF "steps" \in DOMAIN doc THEN doc["steps"] ELSE EmptyObj
        old == IF r.stepId \in DOMAIN steps THEN steps[r.stepId] ELSE EmptyObj
        new == mergeFields(old, (r.progress :> now) @@ ("status" :> r.status), {})
    IN  [steps |-> [sid \in (DOMAIN steps) \cup {r.stepId} |->
                        IF sid = r.stepId THEN new ELSE steps[sid]]]

setStepStatus(pl, r, now) ==
    IF r.planId \in DOMAIN pl
    THEN docUpdate(pl, r.planId, stepFieldsUpdate(pl[r.planId], r, now))
    ELSE [ok |-> FALSE, coll |-> pl]

\* the two updates of the batch of updateStatus
appUpdate(r) ==
    IF r.status = "deployed"
    THEN [status |-> r.status, deployed |-> r.planId, deploying |-> <<>>]
    ELSE [status |-> r.status]

planUpdate(r) ==
    IF r.error = Undefined THEN [status |-> r.status]
    ELSE [status |-> r.status, error |-> r.error]

\* mutant: the application is promoted without the plan being looked at
updateStatusAppOnly(ap, pl, r, ignoreUndefinedProperties) ==
    LET a == docUpdate(ap, encodeURIComponent(r.appId), appUpdate(r))
    IN  [ok |-> a.ok, apps |-> a.coll, plans |-> pl]

\* batch.update(appRef, appUpdate); batch.update(planRef, planUpdate);
\* batch.commit().  An undefined `error` is refused by batch.update unless the
\* Firestore client was set up with ignoreUndefinedProperties; the commit
\* writes both documents or, when one of them is missing, none.
updateStatus(ap, pl, r, ignoreUndefinedProperties) ==
    LET a == docUpdate(ap, encodeURIComponent(r.appId), appUpdate(r))
        b == docUpdate(pl, r.planId, planUpdate(r))
    IN  IF r.error = Undefined /\ ~ignoreUndefinedProperties
        THEN [ok |-> FALSE, apps |-> ap, plans |-> pl]
        ELSE IF a.ok /\ b.ok
        THEN [ok |-> TRUE, apps |-> a.coll, plans |-> b.coll]
        ELSE [ok |-> FALSE, apps |-> ap, plans |-> pl]

\* putApp(appId, deploymentId, ...): the callback of the transaction reads
\* planId (line 80) to build the argument of the workflow execution, and no
\* declaration of planId is in scope: a ReferenceError is raised before the
\* first write of the transaction, which is not committed
putApp(ap, pl, appId, deploymentId) ==
    [err |-> "ReferenceError", message |-> <<"planId is not defined">>,
     apps |-> ap, plans |-> pl]

\* appRef.update({ _counter: FieldValue.increment(1) }): a field that is not
\* there counts as 0
incrementCounter(ap, appId) ==
    LET key == encodeURIComponent(appId)
        old == IF key \in DOMAIN ap /\ "_counter" \in DOMAIN ap[key]
               THEN ap[key]["_counter"] ELSE 0
    IN  docUpdate(ap, key, "_counter" :> (old + 1))

\* the shortId made from the document read after the update:
\* <appShortId>-<app._counter>
shortIdOf(ap, appId, appShortId) ==
    <<appShortId, "-", ToString(ap[encodeURIComponent(appId)]["_counter"])>>

----------------------------------------------------------------------------
(* The metrics job (jobs/metrics/job.js); times are in milliseconds, the    *)
(* endTime of a point in seconds                                            *)

HourMs == 60 * 60 * 1000
ThreeDaysMs == 3 * 24 * 60 * 60 * 1000

\* date.setMinutes(0, 0, 0): the last full hour
roundToFullHour(timestamp) == timestamp - (timestamp % HourMs)

\* the constants now and threeDaysAgo of a run started at Date.now() = t
nowOf(t) == roundToFullHour(t)
threeDaysAgoOf(t) == roundToFullHour(nowOf(t) - ThreeDaysMs)

\* the resource records that have a deployed service, in snapshot order
deployedResources(recs) ==
    SelectSeq(RIdSeq, LAMBDA id :
        /\ HasRecord(recs, ActionTypes.RESOURCES, id)
        /\ "deployed" \in DOMAIN RecordOf(recs, ActionTypes.RESOURCES, id))

\* servicesResources: serviceId -> the ids of the resources deployed on it
servicesResources(recs) ==
    LET ids == deployedResources(recs)
        serviceOf(id) == RecordOf(recs, ActionTypes.RESOURCES, id)["deployed"].service
    IN  [serviceId \in {serviceOf(ids[i]) : i \in DOMAIN ids} |->
            SelectSeq(ids, LAMBDA id : serviceOf(id) = serviceId)]

\* servicesMetrics: serviceId -> cachedMetrics, for the services of
\* servicesResources whose record has a deployed.cachedMetrics
servicesMetrics(recs) ==
    LET docs == recs[ActionTypes.SERVICES]
        has(serviceId) ==
            /\ serviceId \in DOMAIN docs
            /\ "deployed" \in DOMAIN docs[serviceId]
            /\ "cachedMetrics" \in DOMAIN docs[serviceId]["deployed"]
    IN  [serviceId \in {x \in DOMAIN servicesResources(recs) : has(x)} |->
            docs[serviceId]["deployed"]["cachedMetrics"]]

\* label ? metric:label : metric
metricNameOf(series) ==
    IF truthy(series.label) THEN <<series.metric, ":", series.label>> ELSE <<series.metric>>

\* the document of a series: resources/{resourceId}/metrics/{metricName}
metricKey(series) == <<encodeURIComponent(series.resourceId), metricNameOf(series)>>

\* prevData.points || []
existingPoints(docs, key) == IF key \in DOMAIN docs THEN docs[key]["points"] ELSE <<>>

\* mutant: the stored points are replaced by the fetched ones
mergePointsFetchedOnly(existing, points, cutoff) ==
    SelectSeq(points, LAMBDA q : q.endTime >= cutoff)

\* [...existing, ...newPoints].filter(p => p.endTime >= threeDaysAgo / 1000)
mergePoints(existing, points, cutoff) ==
    LET existingEndTimes == {existing[i].endTime : i \in DOMAIN existing}
        newPoints == SelectSeq(points, LAMBDA q : q.endTime \notin existingEndTimes)
    IN  SelectSeq(existing \o newPoints, LAMBDA q : q.endTime >= cutoff)

\* the document set for a series
metricData(series, mergedPoints) ==
    ("resourceId" :> series.resourceId) @@ ("metric" :> series.metric) @@
    ("points" :> mergedPoints) @@
    (IF truthy(series.label) THEN "label" :> series.label ELSE EmptyObj)

\* timeseries.forEach(... transaction.set(metricRef, metricData) ...): every
\* series is merged with the points read before the first write (prev), a
\* later set of the same document replacing an earlier one
RECURSIVE setMetrics(_, _, _, _)
setMetrics(docs, prev, timeseries, cutoff) ==
    IF timeseries = <<>> THEN docs
    ELSE LET series == Head(timeseries)
             key == metricKey(series)
             merged == mergePoints(existingPoints(prev, key), series.points, cutoff)
             doc == metricData(series, merged)
         IN  setMetrics([k \in (DOMAIN docs) \cup {key} |->
                            IF k = key THEN doc ELSE docs[k]],
                        prev, Tail(timeseries), cutoff)

\* { [metricsLastFetchedAt.<serviceId>]: endTime } for the services of
\* servicesMetrics, applied to the application document
lastFetchedUpdate(doc, serviceIds, endTime) ==
    LET old == IF "metricsLastFetchedAt" \in DOMAIN doc
               THEN doc["metricsLastFetchedAt"] ELSE EmptyObj
    IN  "metricsLastFetchedAt" :>
            [serviceId \in (DOMAIN old) \cup serviceIds |->
                IF serviceId \in serviceIds THEN endTime ELSE old[serviceId]]

\* the transaction of fetchMetrics for the application, run at Date.now() = t
\* with the series the services answered: the metric documents are set and
\* the application is updated, or (update() refuses an empty update, the
\* application may have no document) nothing is written
fetchMetrics(ap, docs, recs, appId, timeseries, t) ==
    LET serviceIds == DOMAIN servicesMetrics(recs)
        key == encodeURIComponent(appId)
        cutoff == threeDaysAgoOf(t) \div 1000
        endTime == nowOf(t) \div 1000
    IN  IF serviceIds = {} \/ key \notin DOMAIN ap
        THEN [ok |-> FALSE, apps |-> ap, metrics |-> docs]
        ELSE [ok |-> TRUE,
              apps |-> docUpdate(ap, key, lastFetchedUpdate(ap[key], serviceIds, endTime)).coll,
              metrics |-> setMetrics(docs, docs, timeseries, cutoff)]

----------------------------------------------------------------------------
(* Inputs of the planner: bounded architectures *)

Min(a, b) == IF a < b THEN a ELSE b

\* a dependency entry of resource id: another resource (no self-loop), with
\* its output consumed or not
DepEntries(id) == [resourceId : RIds \ {id}, output : BOOLEAN]

\* dependency mappings of resource id with exactly e entries
DepMapsN(id, e) ==
    UNION {[D -> DepEntries(id)] : D \in {S \in SUBSET DepNames : Cardinality(S) = e}}

TargetServices == {"s1"}
StateServices == {"s0"}
SvcDefs == {"v1", "v2"}

Def(svc, deps) == [service |-> svc, dependencies |-> deps]
Artifact(v) == [artifact |-> v]

Put(m, id, def) == [x \in (DOMAIN m) \cup {id} |-> IF x = id THEN def ELSE m[x]]

\* target.resources over the first k resource ids, with at most n dependency entries
RECURSIVE TargetResources(_, _)
TargetResources(k, n) ==
    IF k = 0 THEN {<<>>}
    ELSE TargetResources(k - 1, n) \cup
         UNION {{Put(m, RIdSeq[k], Def(s, deps)) :
                    m \in TargetResources(k - 1, n - e), s \in TargetServices,
                    deps \in DepMapsN(RIdSeq[k], e)} : e \in 0..Min(n, Cardinality(DepNames))}

\* state.resources over the first k resource ids: a deployed definition is the
\* target's one (no cost) or another one (its dependency entries count)
RECURSIVE StateResources(_, _, _)
StateResources(k, n, tg) ==
    IF k = 0 THEN {<<>>}
    ELSE LET id == RIdSeq[k]
         IN  StateResources(k - 1, n, tg) \cup
             (IF id \in DOMAIN tg
              THEN {Put(m, id, tg[id]) : m \in StateResources(k - 1, n, tg)}
              ELSE {}) \cup
             UNION {{Put(m, id, Def(s, deps)) :
                        m \in StateResources(k - 1, n - e, tg), s \in StateServices,
                        deps \in DepMapsN(id, e)} : e \in 0..Min(n, Cardinality(DepNames))}

RECURSIVE EdgeCount(_, _)
EdgeCount(resources, k) ==
    IF k = 0 THEN 0
    ELSE EdgeCount(resources, k - 1) +
         (IF RIdSeq[k] \in DOMAIN resources
          THEN Cardinality(DOMAIN resources[RIdSeq[k]].dependencies) ELSE 0)

\* the ids and accounts a state with these resources has been given
ProvisionedIds(resources) ==
    [k \in (DOMAIN resources) \cup {moduleIdOf(r) : r \in DOMAIN resources} |-> EmptyObj]

\* one entry of a category other than resources
ExtraSlots ==
    [side : {"state"}, cat : {"ids", "accounts"}, key : AllIds, val : {"v1"}] \cup
    [side : {"state", "target"}, cat : {"services"}, key : SvcIds, val : SvcDefs] \cup
    [side : {"state", "target"}, cat : {"layers"}, key : LayerIds, val : SvcDefs]

RECURSIVE ExtraSets(_)
ExtraSets(n) ==
    IF n = 0 THEN {{}}
    ELSE ExtraSets(n - 1) \cup
         {E \cup {x} : E \in ExtraSets(n - 1),
                       x \in {y \in ExtraSlots : TRUE}}

WellFormedExtra(E) ==
    \A x, y \in E : (x.side = y.side /\ x.cat = y.cat /\ x.key = y.key) => x = y

CategoryOf(E, side, cat) ==
    LET sel == {x \in E : x.side = side /\ x.cat = cat}
    IN  [k \in {x.key : x \in sel} |->
            IF cat \in {"ids", "accounts"} THEN EmptyObj
            ELSE Artifact((CHOOSE x \in sel : x.key = k).val)]

Architecture(ids, accounts, services, layers, resources) ==
    [ids |-> ids, accounts |-> accounts, services |-> services, layers |-> layers,
     resources |-> resources]

KeyOrders == {BaseOrder, Reverse(BaseOrder)}

NoResult == [err |-> NoError, message |-> <<>>, steps |-> <<>>]

NoDiffs ==
    [diffIds |-> [added |-> <<>>, removed |-> <<>>],
     diffAccounts |-> [added |-> <<>>, removed |-> <<>>],
     diffServices |-> [added |-> <<>>, removed |-> <<>>, updated |-> <<>>],
     diffLayers |-> [added |-> <<>>, removed |-> <<>>, updated |-> <<>>],
     diffResources |-> [added |-> <<>>, removed |-> <<>>, updated |-> <<>>]]

\* resource graphs: state provisioned for its resources, no services or layers
InitGraph ==
    \E tr \in TargetResources(Len(RIdSeq), MaxEdges) :
        \E sr \in StateResources(Len(RIdSeq), MaxEdges - EdgeCount(tr, Len(RIdSeq)), tr) :
            /\ target = Architecture(<<>>, <<>>, <<>>, <<>>, tr)
            /\ state = Architecture(ProvisionedIds(sr), ProvisionedIds(sr), <<>>, <<>>, sr)

\* all five categories: resources without dependencies, any ids, accounts,
\* services and layers
InitCategories ==
    \E tr \in TargetResources(Len(RIdSeq), 0) :
        \E sr \in TargetResources(Len(RIdSeq), 0) :
            \E E \in {X \in ExtraSets(MaxExtra) : WellFormedExtra(X)} :
                /\ target = Architecture(<<>>, <<>>, CategoryOf(E, "target", "services"),
                                CategoryOf(E, "target", "layers"), tr)
                /\ state = Architecture(CategoryOf(E, "state", "ids"),
                                CategoryOf(E, "state", "accounts"),
                                CategoryOf(E, "state", "services"),
                                CategoryOf(E, "state", "layers"), sr)

Init ==
    /\ \/ InitGraph /\ keyOrder = BaseOrder
       \/ InitCategories /\ keyOrder \in KeyOrders
    /\ ran = FALSE
    /\ diffs = NoDiffs
    /\ out = NoResult
    /\ records = NoRecords /\ plans = EmptyObj /\ apps = EmptyObj
    /\ clock = 0 /\ call = NoCall
    /\ executions = NoExecutions /\ metrics = NoMetrics

----------------------------------------------------------------------------
(* Operations *)

\* one planning run, the first or a repeated one:
\* const steps = getSteps(stateArchi, planArchi)
GetSteps ==
    /\ diffs' = getDiffs(state, target)
    /\ out' = getSteps(state, target)
    /\ ran' = TRUE
    /\ UNCHANGED <<state, target, keyOrder>>
    /\ UNCHANGED storeVars
    /\ UNCHANGED jobVars

Next == GetSteps

Spec == Init /\ [][Next]_vars

----------------------------------------------------------------------------
(* Vocabulary of the properties, stated on the inputs and the returned plan *)

\* positions <<wave, index>> of the steps of the returned plan
Pos == UNION {{<<w, j>> : j \in DOMAIN out.steps[w]} : w \in DOMAIN out.steps}
StepAt(p) == out.steps[p[1]][p[2]]

Returned == ran /\ out.err = NoError

IsDelete(s) == s.action = "delete"
IsDeploy(s) == s.type = "resources" /\ s.action \in {"create", "update"}
IsDestroy(s) == s.type = "resources" /\ s.action = "delete"

\* the resource ids the dependency entries of resource id refer to
DepsOf(arch, id) ==
    {arch.resources[id].dependencies[k].resourceId :
        k \in DOMAIN arch.resources[id].dependencies}

\* the same, for the entries whose output flag is set
OutputDepsOf(arch, id) ==
    {arch.resources[id].dependencies[k].resourceId :
        k \in {n \in DOMAIN arch.resources[id].dependencies :
                  arch.resources[id].dependencies[n].output}}

\* ids reached from S in 1..n dependency steps that stay inside `within`
RECURSIVE ReachN(_, _, _, _)
ReachN(arch, within, S, n) ==
    IF n = 0 THEN {}
    ELSE LET nxt == UNION {DepsOf(arch, x) \cap within : x \in S}
         IN  nxt \cup ReachN(arch, within, nxt, n - 1)

HasCycleWithin(arch, within) ==
    \E id \in within : id \in ReachN(arch, within, {id}, Cardinality(within))

AddedRes == (DOMAIN target.resources) \ (DOMAIN state.resources)
RemovedRes == (DOMAIN state.resources) \ (DOMAIN target.resources)
ChangedRes ==
    {k \in (DOMAIN target.resources) \cap (DOMAIN state.resources) :
        state.resources[k] # target.resources[k]}

\* least set containing S and every target resource with an output dependency in it
RECURSIVE DependentsClosure(_, _)
DependentsClosure(S, n) ==
    IF n = 0 THEN S
    ELSE DependentsClosure(
            S \cup {r \in DOMAIN target.resources : OutputDepsOf(target, r) \cap S # {}},
            n - 1)

PendingSet == DependentsClosure(AddedRes \cup ChangedRes, Cardinality(RIds))

DeployIds == {StepAt(p).id : p \in {q \in Pos : IsDeploy(StepAt(q))}}

----------------------------------------------------------------------------
(* Properties *)

\* C1: when the target's dependency graph has no cycle, the create/update wave
\* computation ends without an error, and every dependency (any entry of the
\* target's dependency mapping) of a scheduled resource that is itself
\* scheduled lies in a strictly earlier wave.
C1_DeployWavesRespectDependencies ==
    (ran /\ ~HasCycleWithin(target, DOMAIN target.resources)) =>
        /\ out.err # "ReferenceError"
        /\ out.err = NoError =>
            \A p, q \in Pos :
                (/\ IsDeploy(StepAt(p)) /\ IsDeploy(StepAt(q))
                 /\ StepAt(q).id \in DepsOf(target, StepAt(p).id)) => q[1] < p[1]

\* a new resource in a later wave than the new resource it depends on
C1_Witness ==
    /\ Returned /\ ~HasCycleWithin(target, DOMAIN target.resources)
    /\ \E p, q \in Pos :
        /\ IsDeploy(StepAt(p)) /\ IsDeploy(StepAt(q))
        /\ StepAt(p).action = "create" /\ StepAt(q).action = "create"
        /\ StepAt(q).id \in DepsOf(target, StepAt(p).id)
        /\ q[1] < p[1]

\* C2 (as claimed): a dependency cycle inside the pending set makes the
\* create/update wave computation raise the cycle error ("Max passes reached
\* ... Possible dependency cycle"), no wave being returned.
C2_CycleRaisesCycleError ==
    (ran /\ HasCycleWithin(target, PendingSet)) =>
        (out.err = "Error" /\ out.steps = <<>>)

\* C3: in the returned delete waves, when A has a dependency entry on B in the
\* current state and both are deleted, A's wave is strictly before B's.
C3_DestroyWavesDependentsFirst ==
    Returned =>
        \A p, q \in Pos :
            (/\ IsDestroy(StepAt(p)) /\ IsDestroy(StepAt(q))
             /\ StepAt(q).id \in DepsOf(state, StepAt(p).id)) => p[1] < q[1]

C3_Witness ==
    /\ Returned
    /\ \E p, q \in Pos :
        /\ IsDestroy(StepAt(p)) /\ IsDestroy(StepAt(q))
        /\ StepAt(q).id \in DepsOf(state, StepAt(p).id)
        /\ {StepAt(p).id, StepAt(q).id} \subseteq RemovedRes
        /\ p[1] < q[1]

\* position of a step's category in the fixed order of getSteps
Rank(s) ==
    IF s.action # "delete"
    THEN CASE s.type = "services" -> 1
           [] s.type = "layers" -> 2
           [] s.type = "ids" -> 3
           [] s.type = "accounts" -> 4
           [] s.type = "resources" -> 5
    ELSE CASE s.type = "resources" -> 6
           [] s.type = "accounts" -> 7
           [] s.type = "ids" -> 8
           [] s.type = "layers" -> 9
           [] s.type = "services" -> 10

\* C4: the waves of a returned plan follow the fixed category order (a wave
\* holds one category, later waves hold the same or a later category), so
\* every delete step is in a later wave than every create or update step.
C4_CategoryOrder ==
    Returned =>
        \A p, q \in Pos :
            /\ p[1] = q[1] => Rank(StepAt(p)) = Rank(StepAt(q))
            /\ p[1] < q[1] => Rank(StepAt(p)) <= Rank(StepAt(q))
            /\ (IsDelete(StepAt(p)) /\ ~IsDelete(StepAt(q))) => q[1] < p[1]

\* a plan with steps of three categories, deletes among them
C4_Witness ==
    /\ Returned
    /\ \E p, q, r \in Pos :
        /\ Rank(StepAt(p)) < Rank(StepAt(q)) /\ Rank(StepAt(q)) < Rank(StepAt(r))
        /\ ~IsDelete(StepAt(p)) /\ IsDelete(StepAt(r))
        /\ StepAt(p).type # StepAt(q).type /\ StepAt(q).type # StepAt(r).type

IsRateLimitedCreate(s) == s.type \in {"ids", "accounts"} /\ s.action = "create"

\* C5: every id creation and every account creation is alone in its wave.
C5_RateLimitedCreatesAlone ==
    Returned =>
        \A p \in Pos : IsRateLimitedCreate(StepAt(p)) => Len(out.steps[p[1]]) = 1

\* two ids and two accounts are created
C5_Witness ==
    /\ Returned
    /\ \E p, q, r, t \in Pos :
        /\ p # q /\ StepAt(p).type = "ids" /\ StepAt(q).type = "ids"
        /\ StepAt(p).action = "create" /\ StepAt(q).action = "create"
        /\ r # t /\ StepAt(r).type = "accounts" /\ StepAt(t).type = "accounts"
        /\ StepAt(r).action = "create" /\ StepAt(t).action = "create"

\* only services differ: one added, one removed
ServicesOnlyScenario ==
    /\ Len(diffs.diffServices.added) = 1 /\ Len(diffs.diffServices.removed) = 1
    /\ diffs.diffServices.updated = <<>>
    /\ diffs.diffLayers = [added |-> <<>>, removed |-> <<>>, updated |-> <<>>]
    /\ diffs.diffResources = [added |-> <<>>, removed |-> <<>>, updated |-> <<>>]
    /\ diffs.diffIds = [added |-> <<>>, removed |-> <<>>]
    /\ diffs.diffAccounts = [added |-> <<>>, removed |-> <<>>]

\* C6: no wave of a returned plan is empty; when only services differ, one
\* added and one removed, the plan is the two waves [create], [delete].
C6_NoEmptyWave ==
    Returned =>
        /\ \A w \in DOMAIN out.steps : Len(out.steps[w]) > 0
        /\ ServicesOnlyScenario =>
            /\ Len(out.steps) = 2
            /\ Len(out.steps[1]) = 1 /\ Len(out.steps[2]) = 1
            /\ out.steps[1][1].type = "services" /\ out.steps[1][1].action = "create"
            /\ out.steps[1][1].id = diffs.diffServices.added[1]
            /\ out.steps[2][1].type = "services" /\ out.steps[2][1].action = "delete"
            /\ out.steps[2][1].id = diffs.diffServices.removed[1]

C6_Witness == Returned /\ ServicesOnlyScenario /\ Len(out.steps) = 2

\* C7: the steps of a returned plan are numbered step_0, step_1, ... in plan
\* order (wave after wave), in every run: the stepIds are pairwise distinct
\* and a step of an earlier wave has a smaller number than one of a later wave.
C7_StepIdsIncrease ==
    Returned =>
        LET flat == Flat(out.steps)
        IN  /\ \A k \in DOMAIN flat : flat[k].stepId = <<"step_", k - 1>>
            /\ \A p, q \in Pos :
                /\ p # q => StepAt(p).stepId # StepAt(q).stepId
                /\ p[1] < q[1] => StepAt(p).stepId[2] < StepAt(q).stepId[2]

\* a plan of three waves or more, one of them with two steps
C7_Witness ==
    /\ Returned /\ Len(out.steps) >= 3
    /\ \E w \in DOMAIN out.steps : Len(out.steps[w]) >= 2

DiffObjCorrect(D, prev, next) ==
    LET added == Range(D.added)
        removed == Range(D.removed)
        changed == Range(D.updated)
    IN  /\ added = (DOMAIN next) \ (DOMAIN prev)
        /\ removed = (DOMAIN prev) \ (DOMAIN next)
        /\ changed = {k \in (DOMAIN prev) \cap (DOMAIN next) : prev[k] # next[k]}
        /\ added \cap removed = {} /\ added \cap changed = {} /\ removed \cap changed = {}
        /\ changed \subseteq (DOMAIN prev) \cap (DOMAIN next)
        /\ \A k \in (DOMAIN next) \ (added \cup changed) : prev[k] = next[k]

\* C8: the three differences getDiffObj computed for services, layers and
\* resources are the keys only in next, the keys only in prev and the common
\* keys with different values: pairwise disjoint, changed within the common
\* keys, and a key of next in neither added nor changed has the value of prev.
C8_DiffObjPartition ==
    ran =>
        /\ DiffObjCorrect(diffs.diffServices, state.services, target.services)
        /\ DiffObjCorrect(diffs.diffLayers, state.layers, target.layers)
        /\ DiffObjCorrect(diffs.diffResources, state.resources, target.resources)

\* resources added, changed and kept equal in one diff, a service removed
C8_Witness ==
    /\ ran
    /\ diffs.diffResources.added # <<>> /\ diffs.diffResources.updated # <<>>
    /\ \E k \in (DOMAIN state.resources) \cap (DOMAIN target.resources) :
        state.resources[k] = target.resources[k]
    /\ ran /\ Len(diffs.diffResources.added) + Len(diffs.diffResources.updated)
                + Len(diffs.diffResources.removed) >= 2

\* C10: the resources scheduled for create/update are exactly the added and
\* changed resources and the target resources that reach one of them through
\* dependency entries whose output is consumed (output flag set).
C10_ScheduledIsDependentsClosure ==
    Returned => DeployIds = PendingSet

\* an unchanged resource is scheduled because the unchanged resource it
\* depends on depends on a changed one
C10_Witness ==
    /\ Returned
    /\ \E z \in DeployIds \ (AddedRes \cup ChangedRes) :
        /\ OutputDepsOf(target, z) \cap (AddedRes \cup ChangedRes) = {}
        /\ \E y \in OutputDepsOf(target, z) \cap DeployIds :
            y \notin AddedRes \cup ChangedRes

----------------------------------------------------------------------------
(* Properties of the planner: deletions, the output flag, the cycle error *)

DestroyIds == {StepAt(p).id : p \in {q \in Pos : IsDestroy(StepAt(q))}}

\* C11: the resources deleted by the plan are exactly the resources of the
\* state that the target no longer has; a resource that stays in the target
\* is never deleted because something it depends on is.
C11_DeletesExactlyRemoved ==
    Returned => DestroyIds = RemovedRes

\* a resource is deleted while a resource that consumes its output stays
C11_Witness ==
    /\ Returned /\ RemovedRes # {} /\ DestroyIds # {}
    /\ \E r \in (DOMAIN state.resources) \cap (DOMAIN target.resources) :
        /\ OutputDepsOf(state, r) \cap RemovedRes # {}
        /\ r \notin DestroyIds

\* the wave indexes of the create/update steps and of the delete steps
DeployWaves == {p[1] : p \in {q \in Pos : IsDeploy(StepAt(q))}}
DestroyWaves == {p[1] : p \in {q \in Pos : IsDestroy(StepAt(q))}}

\* ids reached from S in 1..n steps along entries whose output flag is set
RECURSIVE OutputReachN(_, _, _, _)
OutputReachN(arch, within, S, n) ==
    IF n = 0 THEN {}
    ELSE LET nxt == UNION {OutputDepsOf(arch, x) \cap within : x \in S}
         IN  nxt \cup OutputReachN(arch, within, nxt, n - 1)

HasOutputCycleWithin(arch, within) ==
    \E id \in within : id \in OutputReachN(arch, within, {id}, Cardinality(within))

\* the entries of resource id whose output flag is not set, by resource id
PlainDepsOf(arch, id) == DepsOf(arch, id) \ OutputDepsOf(arch, id)

\* C12 (as claimed): only the entries whose output flag is set order the
\* plan.  A run fails only on a cycle of such entries, and a step that is not
\* in the first wave of its direction is held back by such an entry: a
\* create/update step has an output dependency in the wave just before, a
\* delete step has a resource consuming its output in the wave just before.
C12_OnlyOutputEntriesOrder ==
    ran =>
        /\ out.err # NoError =>
                \/ HasOutputCycleWithin(target, PendingSet)
                \/ HasOutputCycleWithin(state, RemovedRes)
        /\ out.err = NoError =>
            \A p \in Pos :
                /\ (IsDeploy(StepAt(p)) /\ \E w \in DeployWaves : w < p[1]) =>
                        \E q \in Pos :
                            /\ IsDeploy(StepAt(q)) /\ q[1] = p[1] - 1
                            /\ StepAt(q).id \in OutputDepsOf(target, StepAt(p).id)
                /\ (IsDestroy(StepAt(p)) /\ \E w \in DestroyWaves : w < p[1]) =>
                        \E q \in Pos :
                            /\ IsDestroy(StepAt(q)) /\ q[1] = p[1] - 1
                            /\ StepAt(p).id \in OutputDepsOf(state, StepAt(q).id)

\* C12 (amended): every dependency entry orders the plan whatever its output
\* flag: an entry with output = false puts the depending resource in a later
\* create/update wave and in an earlier delete wave than the resource it
\* names, and a cycle made with such entries fails the run.  The flag only
\* decides what is scheduled: a resource that is neither added nor changed is
\* scheduled only if it has an entry with output = true on a scheduled one.
C12_OutputFlagOnlyGatesExpansion ==
    ran =>
        /\ HasCycleWithin(target, PendingSet) => out.err # NoError
        /\ HasCycleWithin(state, RemovedRes) => out.err # NoError
        /\ out.err = NoError =>
            /\ \A p, q \in Pos :
                /\ (/\ IsDeploy(StepAt(p)) /\ IsDeploy(StepAt(q))
                    /\ StepAt(q).id \in PlainDepsOf(target, StepAt(p).id)) => q[1] < p[1]
                /\ (/\ IsDestroy(StepAt(p)) /\ IsDestroy(StepAt(q))
                    /\ StepAt(q).id \in PlainDepsOf(state, StepAt(p).id)) => p[1] < q[1]
            /\ \A r \in DeployIds \ (AddedRes \cup ChangedRes) :
                    OutputDepsOf(target, r) \cap DeployIds # {}

\* an added resource waits for the changed resource it names with output =
\* false, while an unchanged resource naming the same one is left alone
C12_Witness ==
    /\ Returned
    /\ \E p, q \in Pos :
        /\ IsDeploy(StepAt(p)) /\ IsDeploy(StepAt(q))
        /\ StepAt(q).id \in PlainDepsOf(target, StepAt(p).id)
        /\ OutputDepsOf(target, StepAt(p).id) = {}
        /\ q[1] < p[1]
        /\ \E r \in (DOMAIN target.resources) \ DeployIds :
                StepAt(q).id \in PlainDepsOf(target, r)

\* the ids a failed run left pending, in the direction that failed
StillPending ==
    LET up == expandResourceUpdates(target, diffs.diffResources)
        deploy == wavePasses(0, Len(up), up, <<>>, buildDependenciesIndex(target))
        down == diffs.diffResources.removed
        destroy == wavePasses(0, Len(down), down, <<>>, buildDependentsIndex(state))
    IN  IF deploy.pending # <<>> THEN Range(deploy.pending) ELSE Range(destroy.pending)

\* the message interpolates the value v
reports(message, v) == \E i \in DOMAIN message : message[i] = ToString(v)

\* C14 (as claimed): the error of a run that exhausted its passes names every
\* resource that was still pending.
C14_ErrorReportsPendingIds ==
    (ran /\ out.err # NoError) =>
        /\ StillPending # {}
        /\ \A id \in StillPending : reports(out.message, id)

----------------------------------------------------------------------------
(* Properties of the planner: the identifier universe, payloads, coverage *)

\* the hierarchical prefix of an id: the id up to and including its last "/",
\* the root "/" for an id without one
ModulePath(id) ==
    LET cuts == {i \in DOMAIN id : id[i] = "/"}
    IN  IF cuts = {} THEN <<"/">>
        ELSE SubSeq(id, 1, CHOOSE i \in cuts : \A j \in cuts : j <= i)

Universe ==
    (DOMAIN target.resources) \cup {ModulePath(id) : id \in DOMAIN target.resources}

\* C21: the ids and the accounts of the state are compared with the target's
\* resource ids together with the module path of each of them (the root for
\* an id without separator): the added ids/accounts are the members of this
\* universe that are no key of state.ids/state.accounts, the removed ones
\* the keys that are no member of it.
C21_IdentifierUniverse ==
    ran =>
        /\ Range(diffs.diffIds.added) = Universe \ DOMAIN state.ids
        /\ Range(diffs.diffIds.removed) = (DOMAIN state.ids) \ Universe
        /\ Range(diffs.diffAccounts.added) = Universe \ DOMAIN state.accounts
        /\ Range(diffs.diffAccounts.removed) = (DOMAIN state.accounts) \ Universe

\* the state has the module path of a target resource but not the resource
\* id, and an id the target does not imply
C21_Witness ==
    /\ ran
    /\ \E r \in DOMAIN target.resources :
        /\ ModulePath(r) # r /\ ModulePath(r) \notin DOMAIN target.resources
        /\ ModulePath(r) \in DOMAIN state.ids
        /\ includes(diffs.diffIds.added, r)
        /\ ~includes(diffs.diffIds.added, ModulePath(r))
    /\ diffs.diffIds.removed # <<>>

DefinedTypes == {ActionTypes.SERVICES, ActionTypes.LAYERS, ActionTypes.RESOURCES}

WaveOf(id) ==
    CHOOSE w \in DeployWaves :
        \E j \in DOMAIN out.steps[w] : IsDeploy(out.steps[w][j]) /\ out.steps[w][j].id = id

FirstDeployWave == CHOOSE w \in DeployWaves : \A v \in DeployWaves : w <= v

\* C23: a scheduled resource is in the earliest wave its dependencies allow:
\* the first create/update wave when none of its dependencies is scheduled,
\* else the wave after the last wave of its scheduled dependencies; there are
\* no more create/update waves than scheduled resources.
C23_WavesMaximal ==
    Returned =>
        /\ \A id \in DeployIds :
                LET deps == DepsOf(target, id) \cap DeployIds
                IN  IF deps = {} THEN WaveOf(id) = FirstDeployWave
                    ELSE \E d \in deps :
                            /\ WaveOf(id) = WaveOf(d) + 1
                            /\ \A e \in deps : WaveOf(e) <= WaveOf(d)
        /\ Cardinality(DeployWaves) <= Cardinality(DeployIds)

\* two resources share the second wave, both waiting for the first
C23_Witness ==
    /\ Returned
    /\ \E x, y \in DeployIds :
        /\ x # y /\ WaveOf(x) = WaveOf(y) /\ WaveOf(x) = FirstDeployWave + 1
        /\ DepsOf(target, x) \cap DeployIds # {}
        /\ DepsOf(target, y) \cap DeployIds # {}

\* C24: in a returned plan the resources of the create/update waves are the
\* added and changed resources with their transitive dependents, those of
\* the delete waves are the removed resources, and no resource is in both.
C24_WavesCoverRequiredWork ==
    Returned =>
        /\ DeployIds = PendingSet
        /\ PendingSet \subseteq DOMAIN target.resources
        /\ DestroyIds = RemovedRes
        /\ DeployIds \cap DestroyIds = {}

\* a plan that creates, updates a dependent and deletes
C24_Witness ==
    /\ Returned
    /\ AddedRes # {} /\ RemovedRes # {}
    /\ PendingSet \ (AddedRes \cup ChangedRes) # {}
    /\ DeployIds # {} /\ DestroyIds # {}

\* C25: a create or update step of a service, a layer or a resource is a
\* create when the state has no entry for its id and an update when it has
\* one; every id the target has and the state has not gets a create step.
C25_CreateIffAbsentFromState ==
    Returned =>
        /\ \A p \in Pos :
                LET s == StepAt(p)
                IN  (s.type \in DefinedTypes /\ s.action # Actions.DELETE) =>
                        /\ s.id \in DOMAIN target[s.type]
                        /\ s.action = (IF s.id \in DOMAIN state[s.type]
                                       THEN Actions.UPDATE ELSE Actions.CREATE)
        /\ \A type \in DefinedTypes :
                \A id \in (DOMAIN target[type]) \ (DOMAIN state[type]) :
                    \E p \in Pos :
                        /\ StepAt(p).type = type /\ StepAt(p).id = id
                        /\ StepAt(p).action = Actions.CREATE

\* a resource is created, a changed one is updated and an unchanged one is
\* updated because it consumes the output of one of them
C25_Witness ==
    /\ Returned
    /\ \E p, q, r \in Pos :
        /\ IsDeploy(StepAt(p)) /\ StepAt(p).action = Actions.CREATE
        /\ StepAt(p).id \in AddedRes
        /\ IsDeploy(StepAt(q)) /\ StepAt(q).action = Actions.UPDATE
        /\ StepAt(q).id \in ChangedRes
        /\ IsDeploy(StepAt(r)) /\ StepAt(r).action = Actions.UPDATE
        /\ StepAt(r).id \in (DOMAIN state.resources) \ ChangedRes

\* C26 (as claimed): a returned plan has no two steps of the same category
\* for the same id, also when a resource id is the module path of a resource.
C26_NoDuplicateSteps ==
    Returned =>
        \A p, q \in Pos :
            (StepAt(p).type = StepAt(q).type /\ StepAt(p).id = StepAt(q).id) => p = q

----------------------------------------------------------------------------
(* The state tracker: bounded payloads and the calls of the workflow *)

\* Date.now() takes the values 0..MaxClock
MaxClock == 2

AppId == <<"a", "p", "p">>
PlanIds == {"p1", "p2"}

EmptyArchitecture == Architecture(EmptyObj, EmptyObj, EmptyObj, EmptyObj, EmptyObj)

\* the planner is not run by the tracker's calls
PlannerIdle ==
    /\ state = EmptyArchitecture /\ target = EmptyArchitecture
    /\ keyOrder = BaseOrder /\ ran = FALSE /\ diffs = NoDiffs /\ out = NoResult

\* payloads of updateState for one resource: every way of giving, leaving out,
\* nulling or giving a falsy value for status, output, deploying and error
StateReports ==
    [appId : {AppId}, type : {ActionTypes.RESOURCES}, id : {idMB},
     action : {Actions.UPDATE, Actions.DELETE},
     status : {Undefined, "deployed", "failed"},
     deployed : {<<>>},
     output : {Undefined, "", "o1"},
     deploying : {Undefined, Null, "", "p1"},
     error : {Undefined, Null, "", "e1"}]

StateInit ==
    /\ PlannerIdle
    /\ records = NoRecords /\ plans = EmptyObj /\ apps = EmptyObj
    /\ clock = 0 /\ call = NoCall
    /\ executions = NoExecutions /\ metrics = NoMetrics

\* time passes between two calls
Tick ==
    /\ clock < MaxClock
    /\ clock' = clock + 1
    /\ call' = [op |-> "tick"]
    /\ UNCHANGED <<records, plans, apps>>
    /\ UNCHANGED plannerVars
    /\ UNCHANGED jobVars

UpdateState ==
    \E r \in StateReports :
        /\ records' = updateState(records, r, clock)
        /\ call' = [op |-> "updateState", payload |-> r,
                    existed |-> HasRecord(records, r.type, r.id)]
        /\ UNCHANGED <<plans, apps, clock>>
        /\ UNCHANGED plannerVars
        /\ UNCHANGED jobVars

StateNext == UpdateState \/ Tick

StateSpec == StateInit /\ [][StateNext]_vars

----------------------------------------------------------------------------
(* Properties of updateState *)

Reported == call.op = "updateState"
SuccessfulDelete(r) == r.action = Actions.DELETE /\ r.status = "deployed"

\* C16: after a report of a successful delete (action delete, status
\* deployed) the store has no record of the entity; after a delete report with
\* another status, or none, a record that existed is still there.
C16_SuccessfulDeleteRemovesRecord ==
    Reported =>
        LET r == call.payload
        IN  /\ SuccessfulDelete(r) => ~HasRecord(records, r.type, r.id)
            /\ (r.action = Actions.DELETE /\ ~SuccessfulDelete(r) /\ call.existed) =>
                    HasRecord(records, r.type, r.id)

\* a record that existed is gone after the report of its successful delete
C16_Witness ==
    /\ Reported /\ SuccessfulDelete(call.payload) /\ call.existed
    /\ ~HasRecord(records, call.payload.type, call.payload.id)

\* the report r says something about field f
mentions(r, f) == IF f = "deployed" THEN r[f] # <<>> ELSE r[f] # Undefined

\* C17 (as claimed): a report other than a successful delete leaves a record
\* that carries the reported status, the reported output, whatever value was
\* reported, and the time of the report; the fields the report does not
\* mention are those of the record before.
C17_ReportIsRecorded ==
    [][(call'.op = "updateState" /\ ~SuccessfulDelete(call'.payload)) =>
        LET r == call'.payload
            rec == RecordOf(records', r.type, r.id)
        IN  /\ HasRecord(records', r.type, r.id)
            /\ rec["updatedAt"] = clock
            /\ mentions(r, "status") => ("status" \in DOMAIN rec /\ rec["status"] = r.status)
            /\ mentions(r, "output") => ("output" \in DOMAIN rec /\ rec["output"] = r.output)
            /\ HasRecord(records, r.type, r.id) =>
                    \A f \in {"status", "deployed", "output"} :
                        (~mentions(r, f) /\ f \in DOMAIN RecordOf(records, r.type, r.id)) =>
                            /\ f \in DOMAIN rec
                            /\ rec[f] = RecordOf(records, r.type, r.id)[f]]_vars

\* C18 (as claimed): for the error field and the deploying marker, a report
\* with null removes the field, a report without the field keeps what the
\* record had (a value or nothing), and a report with a value, whatever the
\* value, makes it the field's value.
C18_ClearedOnlyExplicitly ==
    [][(call'.op = "updateState" /\ ~SuccessfulDelete(call'.payload)) =>
        LET r == call'.payload
            rec == RecordOf(records', r.type, r.id)
            had(f) == /\ HasRecord(records, r.type, r.id)
                      /\ f \in DOMAIN RecordOf(records, r.type, r.id)
        IN  \A f \in {"error", "deploying"} :
                /\ r[f] = Null => f \notin DOMAIN rec
                /\ r[f] = Undefined =>
                        /\ (f \in DOMAIN rec) = had(f)
                        /\ had(f) => rec[f] = RecordOf(records, r.type, r.id)[f]
                /\ r[f] \notin {Null, Undefined} =>
                        (f \in DOMAIN rec /\ rec[f] = r[f])]_vars

----------------------------------------------------------------------------
(* The plan tracker: one application, its plans and its resource records *)

TrackedIds == {idA, idMB}
otherId(id) == IF id = idA THEN idMB ELSE idA

dependsOn(id) == [d1 |-> [resourceId |-> id, output |-> TRUE]]

\* what a deployed resource reports as its definition: it consumes the
\* output of the other resource
DeployedDef(id) == Def("s0", dependsOn(otherId(id)))

ResourcesOnly(resources) == Architecture(EmptyObj, EmptyObj, EmptyObj, EmptyObj, resources)

\* idMB consumes the output of idA
ArchChain ==
    ResourcesOnly((idA :> Def("s1", EmptyObj)) @@ (idMB :> Def("s1", dependsOn(idA))))

\* idA and idMB consume each other's output
ArchCycle ==
    ResourcesOnly((idA :> Def("s1", dependsOn(idMB))) @@ (idMB :> Def("s1", dependsOn(idA))))

PlanFiles ==
    {NoFile, NullFile, JsonFile(EmptyArchitecture), JsonFile(ArchChain), JsonFile(ArchCycle)}

ReportedStepIds == {nextStepId(0).stepId}
StepStatuses == {"running", "succeeded", "failed"}
Progresses == {"started", "finished"}

\* the documents putApp sets for a deployment (lines 88-105)
FreshPlan(planId) ==
    [appId |-> AppId, planId |-> planId, deployedAt |-> 0, status |-> "deploying"]
FreshApp ==
    [appId |-> AppId, deployedAt |-> 0, deploying |-> <<"p1", "p2">>,
     status |-> "deploying"]

TrackerInit ==
    /\ PlannerIdle
    /\ records = NoRecords
    /\ plans = ("p1" :> FreshPlan("p1"))
    /\ apps = (encodeURIComponent(AppId) :> FreshApp)
    /\ clock = 0 /\ call = NoCall
    /\ executions = NoExecutions /\ metrics = NoMetrics

ComputeDeploymentSteps ==
    \E planId \in PlanIds, file \in PlanFiles :
        \E r \in {computeDeploymentSteps(records, plans, planId, file)} :
            /\ plans' = r.plans
            /\ call' = [op |-> "computeDeploymentSteps", planId |-> planId,
                        err |-> r.err, steps |-> r.steps]
            /\ UNCHANGED <<records, apps, clock>>
            /\ UNCHANGED plannerVars
            /\ UNCHANGED jobVars

SetStepStatus ==
    \E planId \in PlanIds, stepId \in ReportedStepIds, progress \in Progresses,
       status \in StepStatuses :
        LET r == [appId |-> AppId, planId |-> planId, stepId |-> stepId,
                  progress |-> progress, status |-> status]
            w == setStepStatus(plans, r, clock)
        IN  /\ plans' = w.coll
            /\ call' = [op |-> "setStepStatus", payload |-> r, ok |-> w.ok]
            /\ UNCHANGED <<records, apps, clock>>
            /\ UNCHANGED plannerVars
            /\ UNCHANGED jobVars

UpdateStatus ==
    \E planId \in PlanIds, status \in {"deployed", "failed"}, error \in {Undefined, "e1"},
       ignoreUndefinedProperties \in BOOLEAN :
        LET r == [appId |-> AppId, planId |-> planId, status |-> status, error |-> error]
            w == updateStatus(apps, plans, r, ignoreUndefinedProperties)
        IN  /\ apps' = w.apps
            /\ plans' = w.plans
            /\ call' = [op |-> "updateStatus", payload |-> r, ok |-> w.ok]
            /\ UNCHANGED <<records, clock>>
            /\ UNCHANGED plannerVars
            /\ UNCHANGED jobVars

\* the report of a resource deployed or deleted by a step
UpdateStateDeployed ==
    \E id \in TrackedIds, action \in {Actions.UPDATE, Actions.DELETE} :
        LET r == [appId |-> AppId, type |-> ActionTypes.RESOURCES, id |-> id,
                  action |-> action, status |-> "deployed",
                  deployed |-> <<DeployedDef(id)>>,
                  output |-> Undefined, deploying |-> Undefined, error |-> Undefined]
        IN  /\ records' = updateState(records, r, clock)
            /\ call' = [op |-> "updateState", payload |-> r,
                        existed |-> HasRecord(records, r.type, r.id)]
            /\ UNCHANGED <<plans, apps, clock>>
            /\ UNCHANGED plannerVars
            /\ UNCHANGED jobVars

TrackerNext ==
    \/ ComputeDeploymentSteps
    \/ SetStepStatus
    \/ UpdateStatus
    \/ UpdateStateDeployed

TrackerSpec == TrackerInit /\ [][TrackerNext]_vars

----------------------------------------------------------------------------
(* Properties of the plan tracker *)

HasSteps(doc) == "steps" \in DOMAIN doc

\* two step documents with the same fields and values (the data of two steps
\* is compared when the steps are of the same type)
SameStepDoc(a, b) ==
    /\ DOMAIN a = DOMAIN b
    /\ \A f \in (DOMAIN a) \ {"data"} : a[f] = b[f]
    /\ "data" \in DOMAIN a => a["data"] = b["data"]

SameSteps(x, y) ==
    /\ DOMAIN x = DOMAIN y
    /\ \A sid \in DOMAIN x : SameStepDoc(x[sid], y[sid])

SamePlanDoc(a, b) ==
    /\ DOMAIN a = DOMAIN b
    /\ \A f \in (DOMAIN a) \ {"steps"} : a[f] = b[f]
    /\ HasSteps(a) => SameSteps(a["steps"], b["steps"])

SamePlans(x, y) ==
    /\ DOMAIN x = DOMAIN y
    /\ \A planId \in DOMAIN x : SamePlanDoc(x[planId], y[planId])

Planned == call.op = "computeDeploymentSteps"

\* C13: a planning call that fails (no plan architecture, a null one, a
\* dependency cycle among the resources to create or update or among those
\* to delete, no plan document) leaves every plan document as it was; a call
\* that succeeds sets the steps of its plan to exactly the steps of all the
\* waves it returns, each of them whole, and leaves the other plans alone.
C13_NoPartialPlan ==
    [][call'.op = "computeDeploymentSteps" =>
        IF call'.err # NoError
        THEN SamePlans(plans, plans')
        ELSE LET planId == call'.planId
                 flat == Flat(call'.steps)
             IN  /\ DOMAIN plans' = DOMAIN plans
                 /\ planId \in DOMAIN plans
                 /\ HasSteps(plans'[planId])
                 /\ DOMAIN plans'[planId]["steps"] = {flat[i].stepId : i \in DOMAIN flat}
                 /\ \A i \in DOMAIN flat :
                        SameStepDoc(plans'[planId]["steps"][flat[i].stepId], flat[i])
                 /\ \A f \in (DOMAIN plans[planId]) \ {"steps"} :
                        f \in DOMAIN plans'[planId] /\ plans'[planId][f] = plans[planId][f]
                 /\ \A other \in (DOMAIN plans) \ {planId} :
                        SamePlanDoc(plans[other], plans'[other])]_vars

\* a planning call failed on a dependency cycle for a plan whose steps had
\* been written by an earlier call: they are still there
C13_Witness ==
    /\ Planned /\ call.err \in {"Error", "ReferenceError"}
    /\ call.planId \in DOMAIN plans
    /\ HasSteps(plans[call.planId])
    /\ \E sid \in DOMAIN plans[call.planId]["steps"] :
            "stepId" \in DOMAIN plans[call.planId]["steps"][sid]

\* the plan document holds steps written by a planning call
HasPlannedSteps(doc) ==
    /\ HasSteps(doc)
    /\ \E sid \in DOMAIN doc["steps"] : "stepId" \in DOMAIN doc["steps"][sid]

\* C15 (as claimed): once a planning call has written the steps of a plan, a
\* later planning call leaves each of them as it is, its definition and the
\* status and times reported for it.
C15_PlanImmutable ==
    [][call'.op = "computeDeploymentSteps" =>
        \A planId \in DOMAIN plans :
            HasPlannedSteps(plans[planId]) =>
                /\ planId \in DOMAIN plans' /\ HasSteps(plans'[planId])
                /\ \A sid \in DOMAIN plans[planId]["steps"] :
                        /\ sid \in DOMAIN plans'[planId]["steps"]
                        /\ SameStepDoc(plans[planId]["steps"][sid],
                                       plans'[planId]["steps"][sid])]_vars

AppDoc(ap) == ap[encodeURIComponent(AppId)]

\* C19: the status of the application becomes deployed only in a call of
\* updateStatus with status deployed; setStepStatus and updateState never
\* write the application.  That call writes all or nothing: when it succeeds
\* the application has status deployed, the plan as its deployed plan and an
\* empty deploying list, and the plan has status deployed; when it fails the
\* application and the plans are as before.
C19_DeployedOnlyByUpdateStatus ==
    [][/\ (AppDoc(apps')["status"] = "deployed" /\ AppDoc(apps)["status"] # "deployed") =>
            (call'.op = "updateStatus" /\ call'.payload.status = "deployed" /\ call'.ok)
       /\ call'.op \in {"setStepStatus", "updateState", "computeDeploymentSteps"} =>
            apps' = apps
       /\ (call'.op = "updateStatus" /\ call'.payload.status = "deployed") =>
            IF call'.ok
            THEN /\ AppDoc(apps')["status"] = "deployed"
                 /\ AppDoc(apps')["deployed"] = call'.payload.planId
                 /\ AppDoc(apps')["deploying"] = <<>>
                 /\ call'.payload.planId \in DOMAIN plans'
                 /\ plans'[call'.payload.planId]["status"] = "deployed"
            ELSE apps' = apps /\ SamePlans(plans, plans')]_vars

\* the application was deploying two plans and has been told that p1 is
\* deployed
C19_Witness ==
    /\ call.op = "updateStatus" /\ call.ok /\ call.payload.status = "deployed"
    /\ AppDoc(apps)["status"] = "deployed"
    /\ AppDoc(apps)["deployed"] = call.payload.planId
    /\ AppDoc(apps)["deploying"] = <<>>
    /\ plans[call.payload.planId]["status"] = "deployed"

\* the position of a status on pending -> running -> succeeded | failed
statusRank(status) ==
    CASE status = "pending" -> 0
      [] status = "running" -> 1
      [] OTHER -> 2

\* C20 (as claimed): a status report never moves the status of a step
\* backwards: its rank does not decrease, and a step that is succeeded or
\* failed keeps that status.
C20_StepStatusForwardOnly ==
    [][call'.op = "setStepStatus" =>
        \A planId \in DOMAIN plans :
            HasSteps(plans[planId]) =>
                \A sid \in DOMAIN plans[planId]["steps"] :
                    "status" \in DOMAIN plans[planId]["steps"][sid] =>
                        LET before == plans[planId]["steps"][sid]["status"]
                            after == plans'[planId]["steps"][sid]["status"]
                        IN  /\ statusRank(after) >= statusRank(before)
                            /\ statusRank(before) = 2 => after = before]_vars

\* C27: a call of setStepStatus writes nothing but the time of the progress
\* marker and the status of the step it names, in the plan it names: the
\* other fields of that step (type, action, id, data, the other marker), the
\* other steps, the other fields of the plan, the other plans, the
\* application and the entity records are as before; a call that fails
\* writes nothing.
C27_SetStepStatusFrame ==
    [][call'.op = "setStepStatus" =>
        LET r == call'.payload
        IN  /\ apps' = apps /\ records' = records
            /\ IF ~call'.ok THEN SamePlans(plans, plans')
               ELSE LET old == plans[r.planId]
                        new == plans'[r.planId]
                        oldSteps == IF HasSteps(old) THEN old["steps"] ELSE EmptyObj
                        o == IF r.stepId \in DOMAIN oldSteps THEN oldSteps[r.stepId]
                             ELSE EmptyObj
                        n == new["steps"][r.stepId]
                    IN  /\ DOMAIN plans' = DOMAIN plans
                        /\ \A other \in (DOMAIN plans) \ {r.planId} :
                                SamePlanDoc(plans[other], plans'[other])
                        /\ DOMAIN new = (DOMAIN old) \cup {"steps"}
                        /\ \A f \in (DOMAIN old) \ {"steps"} : new[f] = old[f]
                        /\ DOMAIN new["steps"] = (DOMAIN oldSteps) \cup {r.stepId}
                        /\ \A sid \in (DOMAIN oldSteps) \ {r.stepId} :
                                SameStepDoc(oldSteps[sid], new["steps"][sid])
                        /\ DOMAIN n = (DOMAIN o) \cup {r.progress, "status"}
                        /\ n[r.progress] = clock /\ n["status"] = r.status
                        /\ \A f \in (DOMAIN o) \ {r.progress, "status"} : n[f] = o[f]]_vars

\* a step of a planned plan with two steps has been reported: it has its
\* definition and its marker, and the other step is there
C27_Witness ==
    /\ call.op = "setStepStatus" /\ call.ok
    /\ LET steps == plans[call.payload.planId]["steps"]
           stepId == call.payload.stepId
       IN  /\ "data" \in DOMAIN steps[stepId]
           /\ call.payload.progress \in DOMAIN steps[stepId]
           /\ \E sid \in (DOMAIN steps) \ {stepId} : "data" \in DOMAIN steps[sid]

----------------------------------------------------------------------------
(* Deployments in flight: putApp, updateStatus and the workflow executions *)
(* that ask for resource short ids                                         *)

\* calls of createResourceShortId: the counter goes up to MaxCounter
MaxCounter == 3

Executions == {"e1", "e2"}
AppShortId == "abc"

DeployInit ==
    /\ PlannerIdle
    /\ records = NoRecords
    /\ plans = [planId \in PlanIds |-> FreshPlan(planId)]
    /\ apps = (encodeURIComponent(AppId) :> FreshApp)
    /\ clock = 0 /\ call = NoCall
    /\ executions = [e \in Executions |-> [pc |-> "update", returned |-> <<>>]]
    /\ metrics = NoMetrics

PutApp ==
    \E deploymentId \in PlanIds :
        \E r \in {putApp(apps, plans, AppId, deploymentId)} :
            /\ apps' = r.apps
            /\ plans' = r.plans
            /\ call' = [op |-> "putApp", deploymentId |-> deploymentId, err |-> r.err]
            /\ UNCHANGED <<records, clock>>
            /\ UNCHANGED plannerVars
            /\ UNCHANGED jobVars

\* await appRef.update({ _counter: FieldValue.increment(1) })
IncrementCounter ==
    \E e \in Executions :
        /\ executions[e].pc = "update"
        /\ Len(executions[e].returned) < MaxCounter
        /\ \E w \in {incrementCounter(apps, AppId)} :
            /\ w.ok
            /\ w.coll[encodeURIComponent(AppId)]["_counter"] <= MaxCounter
            /\ apps' = w.coll
        /\ executions' = [executions EXCEPT ![e].pc = "get"]
        /\ call' = [op |-> "createResourceShortId", execution |-> e, at |-> "update"]
        /\ UNCHANGED <<records, plans, clock, metrics>>
        /\ UNCHANGED plannerVars

\* const doc = await appRef.get(); return { shortId: ... }
ReadCounter ==
    \E e \in Executions :
        /\ executions[e].pc = "get"
        /\ executions' =
                [executions EXCEPT ![e].pc = "update",
                                   ![e].returned = Append(@, shortIdOf(apps, AppId, AppShortId))]
        /\ call' = [op |-> "createResourceShortId", execution |-> e, at |-> "get"]
        /\ UNCHANGED <<records, plans, apps, clock, metrics>>
        /\ UNCHANGED plannerVars

DeployNext ==
    \/ PutApp
    \/ UpdateStatus
    \/ IncrementCounter
    \/ ReadCounter

DeploySpec == DeployInit /\ [][DeployNext]_vars

Deploying(ap) == Range(AppDoc(ap)["deploying"])

ReturnedCalls ==
    UNION {{<<e, i>> : i \in DOMAIN executions[e].returned} : e \in DOMAIN executions}

\* C29 (as claimed): no two calls of createResourceShortId for the
\* application have returned the same shortId.
C29_ShortIdsUnique ==
    \A c, d \in ReturnedCalls :
        c # d => executions[c[1]].returned[c[2]] # executions[d[1]].returned[d[2]]

----------------------------------------------------------------------------
(* Runs of the metrics job for one application with one deployed resource *)

\* Date.now() at clock c: the runs are two days and half an hour apart
TickMs == 2 * 24 * HourMs + HourMs \div 2
DateNow(c) == c * TickMs

MetricResource == idMB
MetricService == "s1"
CachedMetrics == <<"m1">>

\* what the service answers at clock c (the service is not part of the
\* repository): at most two series for the resource, with or without a
\* label, each of at most one point, which ends with a run so far and
\* carries the value read at c
EndTimes(c) == {nowOf(DateNow(k)) \div 1000 : k \in 0..c}
MetricPoints(c) == [endTime : EndTimes(c), value : {c}]
PointLists(c) == {<<>>} \cup {<<x>> : x \in MetricPoints(c)}
SeriesOf(c) ==
    [resourceId : {MetricResource}, metric : Range(CachedMetrics),
     label : {Undefined, "l1"}, points : PointLists(c)]
Timeseries(recs, c) ==
    IF \E serviceId \in DOMAIN servicesMetrics(recs) : servicesMetrics(recs)[serviceId] # <<>>
    THEN {<<>>} \cup {<<x>> : x \in SeriesOf(c)}
                \cup {<<x, y>> : x \in SeriesOf(c), y \in SeriesOf(c)}
    ELSE {<<>>}

\* the record of the service, with metrics enabled or not
ServiceRecords ==
    {[id |-> MetricService, deployed |-> [cachedMetrics |-> CachedMetrics]],
     [id |-> MetricService, deployed |-> [artifact |-> "v1"]]}

MetricsInit ==
    /\ PlannerIdle
    /\ \E service \in ServiceRecords :
        records =
            [NoRecords EXCEPT
                ![ActionTypes.RESOURCES] =
                    encodeURIComponent(MetricResource) :>
                        [id |-> MetricResource, type |-> ActionTypes.RESOURCES,
                         deployed |-> Def(MetricService, EmptyObj)],
                ![ActionTypes.SERVICES] = MetricService :> service]
    /\ plans = EmptyObj
    /\ apps = (encodeURIComponent(AppId) :> FreshApp)
    /\ clock = 0 /\ call = NoCall
    /\ executions = NoExecutions /\ metrics = NoMetrics

\* one run of the job for the application
FetchMetrics ==
    \E timeseries \in Timeseries(records, clock) :
        \E r \in {fetchMetrics(apps, metrics, records, AppId, timeseries, DateNow(clock))} :
            /\ apps' = r.apps
            /\ metrics' = r.metrics
            /\ call' = [op |-> "fetchMetrics", timeseries |-> timeseries, ok |-> r.ok]
            /\ UNCHANGED <<records, plans, clock, executions>>
            /\ UNCHANGED plannerVars

MetricsNext == FetchMetrics \/ Tick

MetricsSpec == MetricsInit /\ [][MetricsNext]_vars

----------------------------------------------------------------------------
(* Properties of the metrics job *)

Cutoff == threeDaysAgoOf(DateNow(clock)) \div 1000
InWindow(point) == point.endTime >= Cutoff

\* the points of the series of ts written to document key
FetchedFor(ts, key) ==
    UNION {Range(ts[i].points) : i \in {j \in DOMAIN ts : metricKey(ts[j]) = key}}

\* the last series of ts written to document key
LastFor(ts, key) ==
    ts[CHOOSE i \in DOMAIN ts :
        /\ metricKey(ts[i]) = key
        /\ \A j \in DOMAIN ts : metricKey(ts[j]) = key => j <= i]

\* C30: after a run that commits, the points of each document written are
\* the points it had that are inside the three-day window, in their order
\* and once each, followed by fetched points only, none of which has the
\* endTime of a point that was stored nor an endTime before the cutoff; the
\* points of the last series fetched for the document that are new and
\* inside the window are all there.  The documents of the series not
\* fetched are as before, and a run that does not commit writes nothing.
C30_MergeKeepsStoredPoints ==
    [][call'.op = "fetchMetrics" =>
        IF ~call'.ok THEN metrics' = metrics
        ELSE LET ts == call'.timeseries
                 written == {metricKey(ts[i]) : i \in DOMAIN ts}
             IN  /\ DOMAIN metrics' = (DOMAIN metrics) \cup written
                 /\ \A key \in (DOMAIN metrics) \ written : metrics'[key] = metrics[key]
                 /\ \A key \in written :
                        LET prev == existingPoints(metrics, key)
                            kept == SelectSeq(prev, InWindow)
                            new == metrics'[key]["points"]
                            stored == {prev[i].endTime : i \in DOMAIN prev}
                            added == SubSeq(new, Len(kept) + 1, Len(new))
                        IN  /\ Len(new) >= Len(kept)
                            /\ SubSeq(new, 1, Len(kept)) = kept
                            /\ \A i \in DOMAIN added :
                                    /\ added[i] \in FetchedFor(ts, key)
                                    /\ added[i].endTime \notin stored
                                    /\ InWindow(added[i])
                            /\ added = SelectSeq(LastFor(ts, key).points,
                                            LAMBDA q : q.endTime \notin stored /\ InWindow(q))]_vars

\* at the third run the service answers the endTime of the second run again,
\* with another value, and the endTime of the third run: the document keeps
\* the point stored at the second run and gets the one of the third
C30_Witness ==
    /\ call.op = "fetchMetrics" /\ call.ok /\ clock = 2
    /\ \E key \in DOMAIN metrics :
        LET points == metrics[key]["points"]
            end(c) == nowOf(DateNow(c)) \div 1000
        IN  /\ key \in {metricKey(call.timeseries[i]) : i \in DOMAIN call.timeseries}
            /\ Len(points) = 2
            /\ points[1] = [endTime |-> end(1), value |-> 1]
            /\ points[2] = [endTime |-> end(2), value |-> 2]
            /\ [endTime |-> end(1), value |-> 2] \in FetchedFor(call.timeseries, key)
            /\ end(0) < Cutoff /\ end(1) >= Cutoff

====
